---- MODULE Spec2Model ----
(***************************************************************************)
(* Model of video-transpose (src/src/main.rs): a two-pass pipeline that    *)
(* decodes every frame of a video into memory (Pass 1), then swaps the X   *)
(* and T axes, re-encodes and muxes the result with reconstructed          *)
(* timestamps (Pass 2).                                                    *)
(*                                                                         *)
(* Buffers are functions over 0..n-1 (byte offsets); sequences of frames   *)
(* and packets are 1-indexed, so Rust's v[i] is v[i + 1] here.              *)
(* Calls into the codec/container library (decode, scale, encode, mux)     *)
(* are not part of the repository: each one either returns Ok with the     *)
(* result its arguments configure, or returns Err, which `?` propagates.   *)
(***************************************************************************)
EXTENDS Integers, Sequences, FiniteSets, TLC

\* ---- bounds of the model ----
MaxWidth == 2
MaxHeight == 2
MaxPackets == 3
MaxStridePad == 1

\* Average frame rates <<numerator, denominator>> the input stream may report.
FrameRates == {<<30, 1>>, <<25, 1>>, <<15, 2>>, <<2000, 1>>, <<0, 1>>}

VARIABLES
    pc,                       \* position of main / transpose_and_save
    error,                    \* message of the Err returned by main ("" if none)
    width, height,            \* decoder.width(), decoder.height()
    stride,                   \* linesize of the RGB24 frames the scaler returns
    fps,                      \* input_stream.avg_frame_rate()
    frames,                   \* Vec<Vec<u8>> filled in Pass 1
    decPending,               \* packets sent to the decoder, frame not yet received
    decSent,                  \* video packets read from the input so far
    firstDims,                \* dimensions of the first decoded frame (<<0,0>> before)
    mismatch,                 \* a frame whose decoded size differs from the first was appended
    log,                      \* output-side calls made so far, in order
    actual_stream_time_base,  \* stream time base read back after write_header
    pts_increment,
    current_pts,
    encPending,               \* frames sent to the encoder, packet not yet received
    packets,                  \* packets handed to write_interleaved, in order
    outFrames,                \* rgb frames built by the transpose loop, in order
    x                         \* loop variable of `for x in 0..new_num_frames`

vars == <<pc, error, width, height, stride, fps, frames, decPending, decSent,
          firstDims, mismatch, log, actual_stream_time_base, pts_increment,
          current_pts, encPending, packets, outFrames, x>>

\* ---- helpers ----
Range(s) == {s[i] : i \in DOMAIN s}

SeqsOfLen(S, n) == [1..n -> S]

Count(s, e) == Cardinality({i \in DOMAIN s : s[i] = e})

\* ---- Pass 1: decode into the frame store ----

\* Bytes of the t-th RGB24 frame the scaler returns: height rows of `stride`
\* bytes, of which the first 3*width are pixels.  Every byte of every frame is
\* distinct and non-zero, so a read at a wrong offset and an unwritten output
\* byte are both visible.
RgbFrameData(t) ==
    [o \in 0..(height * stride - 1) |-> (1 + t * height * stride + o) % 256]

\* Sizes a decoded frame may have: the size the stream declared, or another.
DecodedDims == {<<width, height>>, <<width + 1, height>>, <<width, height + 1>>}

RECURSIVE PushFrames(_, _)
PushFrames(fs, k) ==
    IF k = 0 THEN fs
    ELSE PushFrames(Append(fs, RgbFrameData(Len(fs))), k - 1)

\* receive_and_process_frames: the decoder hands out k frames of sizes ds; each
\* is scaled and pushed, with no look at its size.  failAt = 0: every
\* scaler.run succeeded; otherwise the failAt-th scaler.run returned Err and
\* the function returns it, leaving the frames pushed before it.
ReceiveAndProcess(k, ds, failAt) ==
    LET pushed == IF failAt = 0 THEN k ELSE failAt - 1
        first  == IF firstDims = <<0, 0>> /\ pushed > 0 THEN ds[1] ELSE firstDims
    IN  /\ frames' = PushFrames(frames, pushed)
        /\ firstDims' = first
        /\ mismatch' = (mismatch \/ \E i \in 1..pushed : ds[i] # first)

NoFramesDecodedNever(num_frames) == FALSE

\* `if num_frames == 0 { return Err("No frames decoded") }`
NoFramesDecoded(num_frames) == num_frames = 0

\* One iteration of `for (stream, packet) in ictx.packets()` on a video packet.
DecodePacket ==
    /\ pc = "decoding"
    /\ decSent < MaxPackets
    /\ decSent' = decSent + 1
    /\ \E sendOk \in BOOLEAN :
         IF ~sendOk
           THEN /\ pc' = "failed" /\ error' = "decoder.send_packet"
                /\ UNCHANGED <<frames, firstDims, mismatch, decPending>>
           ELSE \E k \in 0..(decPending + 1) :
                \E ds \in SeqsOfLen(DecodedDims, k) :
                \E failAt \in 0..k :
                   /\ decPending' = decPending + 1 - k
                   /\ ReceiveAndProcess(k, ds, failAt)
                   /\ IF failAt = 0
                        THEN pc' = "decoding" /\ error' = error
                        ELSE pc' = "failed" /\ error' = "scaler.run"
    /\ UNCHANGED <<width, height, stride, fps, log, actual_stream_time_base,
                   pts_increment, current_pts, encPending, packets, outFrames, x>>

\* End of the packet loop: send_eof, drain the decoder, check the frame count.
FlushDecoder ==
    /\ pc = "decoding"
    /\ \E k \in 0..decPending :
       \E ds \in SeqsOfLen(DecodedDims, k) :
       \E failAt \in 0..k :
          /\ decPending' = 0
          /\ ReceiveAndProcess(k, ds, failAt)
          /\ IF failAt # 0
               THEN pc' = "failed" /\ error' = "scaler.run"
               ELSE IF NoFramesDecoded(Len(frames'))
                      THEN pc' = "failed" /\ error' = "No frames decoded"
                      ELSE pc' = "setup" /\ error' = error
    /\ UNCHANGED <<width, height, stride, fps, decSent, log, actual_stream_time_base,
                   pts_increment, current_pts, encPending, packets, outFrames, x>>

\* ---- Pass 2: transpose_and_save ----

NewWidthNoPad(new_width_raw) == new_width_raw

\* H.264 requires even dimensions, pad if needed.
NewWidth(new_width_raw) ==
    IF new_width_raw % 2 = 0 THEN new_width_raw ELSE new_width_raw + 1

NewNumFramesOffByOne(orig_width) == orig_width - 1

\* `let new_num_frames = orig_width;`
NewNumFrames(orig_width) == orig_width

SrcOffset(y, orig_width, xx) == (y * orig_width + xx) * 3

DstOffset(y, new_width, t) == (y * new_width + t) * 3

\* The body of `for x in 0..new_num_frames` up to the rgb frame: the buffer
\* starts as zeros, the (y, t) loop copies 3 bytes per pixel, and the padding
\* step copies the last written column into the added one.
TransposedFrame(input_frames, orig_width, orig_height, num_frames, xx) ==
    LET new_width_raw == num_frames
        new_height    == orig_height
        new_width     == NewWidth(new_width_raw)
        padded        == new_width # new_width_raw
        Offsets       == 0..(new_width * new_height * 3 - 1)
        Row(i)        == i \div (new_width * 3)
        Col(i)        == (i % (new_width * 3)) \div 3
        Chan(i)       == i % 3
        copied == [i \in Offsets |->
                     IF Col(i) < new_width_raw
                       THEN input_frames[Col(i) + 1][SrcOffset(Row(i), orig_width, xx) + Chan(i)]
                       ELSE 0]
        data   == [i \in Offsets |->
                     IF padded /\ Col(i) = new_width_raw
                       THEN copied[DstOffset(Row(i), new_width, new_width_raw - 1) + Chan(i)]
                       ELSE copied[i]]
    IN  [pts |-> xx, width |-> new_width, height |-> new_height, data |-> data]

\* Everything before write_header: open the output, find and open the encoder,
\* add the stream with the requested time base den/num.
SetupOutput ==
    /\ pc = "setup"
    /\ \E outcome \in {"ok", "output", "find", "open", "scaler"} :
         /\ log' = log \o
              CASE outcome = "output" -> <<>>
                [] outcome = "find"   -> <<"output">>
                [] outcome = "open"   -> <<"output">>
                [] outcome = "scaler" -> <<"output", "encoder_open", "add_stream">>
                [] OTHER              -> <<"output", "encoder_open", "add_stream">>
         /\ IF outcome = "ok"
              THEN pc' = "header" /\ error' = error
              ELSE /\ pc' = "failed"
                   /\ error' = IF outcome = "find" THEN "H264 encoder not found"
                               ELSE outcome
    /\ UNCHANGED <<width, height, stride, fps, frames, decPending, decSent, firstDims,
                   mismatch, actual_stream_time_base, pts_increment, current_pts,
                   encPending, packets, outFrames, x>>

\* Time bases the muxer may settle on in write_header: the requested one
\* (fps.denominator / fps.numerator) or one of its own.
NegotiatedTimeBases == {<<fps[2], fps[1]>>, <<1, 1000>>, <<1, 15360>>}

PtsIncrementFromRequested(stream_time_base, fps_) ==
    (fps_[1] * fps_[2]) \div fps_[1]

\* (actual_stream_time_base.denominator() * fps.denominator()) / fps.numerator()
PtsIncrement(stream_time_base, fps_) ==
    (stream_time_base[2] * fps_[2]) \div fps_[1]

\* write_header, read the stream time base back, compute pts_increment.
\* Integer division by zero panics.
WriteHeader ==
    /\ pc = "header"
    /\ \E ok \in BOOLEAN :
         IF ~ok
           THEN /\ pc' = "failed" /\ error' = "write_header"
                /\ UNCHANGED <<log, actual_stream_time_base, pts_increment, current_pts>>
           ELSE \E tb \in NegotiatedTimeBases :
                  /\ actual_stream_time_base' = tb
                  /\ IF fps[1] = 0
                       THEN /\ pc' = "panicked" /\ error' = error
                            /\ log' = log \o <<"write_header", "divide">>
                            /\ UNCHANGED <<pts_increment, current_pts>>
                       ELSE /\ pc' = "encoding" /\ error' = error
                            /\ log' = log \o <<"write_header", "divide", "pts_increment">>
                            /\ pts_increment' = PtsIncrement(tb, fps)
                            /\ current_pts' = 0
    /\ UNCHANGED <<width, height, stride, fps, frames, decPending, decSent, firstDims,
                   mismatch, encPending, packets, outFrames, x>>

\* av_rescale_q: a * from / to, rounded to nearest.
RescaleTs(a, from, to) ==
    LET num == a * from[1] * to[2]
        den == from[2] * to[1]
    IN  (2 * num + den) \div (2 * den)

\* receive_and_write_packets_with_pts: the encoder hands out k packets; each
\* has its timestamps rescaled, then overwritten by current_pts, which is
\* advanced before the write.  The packet's own timestamp is the pts of the
\* frame it encodes (frame number, in the encoder time base den/num).
RECURSIVE WritePackets(_, _, _, _)
WritePackets(k, pkts, cur, failAt) ==
    IF k = 0 THEN [packets |-> pkts, current_pts |-> cur]
    ELSE LET encoded   == [pts |-> Len(pkts), dts |-> Len(pkts)]
             rescaled  == [pts |-> RescaleTs(encoded.pts, <<fps[2], fps[1]>>, actual_stream_time_base),
                           dts |-> RescaleTs(encoded.dts, <<fps[2], fps[1]>>, actual_stream_time_base)]
             overriden == [rescaled EXCEPT !.pts = cur, !.dts = cur]
         IN  IF failAt = 1
               THEN [packets |-> pkts, current_pts |-> cur + pts_increment]
               ELSE WritePackets(k - 1, Append(pkts, overriden), cur + pts_increment,
                                 IF failAt = 0 THEN 0 ELSE failAt - 1)

RECURSIVE Repeat(_, _)
Repeat(e, n) == IF n = 0 THEN <<>> ELSE <<e>> \o Repeat(e, n - 1)

\* One iteration of `for x in 0..new_num_frames`.
EncodeFrame ==
    /\ pc = "encoding"
    /\ x < NewNumFrames(width)
    /\ outFrames' = Append(outFrames,
                           TransposedFrame(frames, width, height, Len(frames), x))
    /\ \E sendOk \in BOOLEAN :
         IF ~sendOk
           THEN /\ pc' = "failed" /\ error' = "encoder.send_frame"
                /\ UNCHANGED <<log, encPending, packets, current_pts, x>>
           ELSE \E k \in 0..(encPending + 1) :
                \E failAt \in 0..k :
                  LET w == WritePackets(k, packets, current_pts, failAt)
                      written == Len(w.packets) - Len(packets)
                  IN  /\ packets' = w.packets
                      /\ current_pts' = w.current_pts
                      /\ encPending' = encPending + 1 - k
                      /\ log' = log \o <<"send_frame">> \o Repeat("write_packet", written)
                      /\ IF failAt = 0
                           THEN pc' = "encoding" /\ error' = error /\ x' = x + 1
                           ELSE pc' = "failed" /\ error' = "write_interleaved" /\ x' = x
    /\ UNCHANGED <<width, height, stride, fps, frames, decPending, decSent, firstDims,
                   mismatch, actual_stream_time_base, pts_increment>>

\* After the loop: send_eof and drain every packet the encoder still holds.
FlushEncoder ==
    /\ pc = "encoding"
    /\ x = NewNumFrames(width)
    /\ \E eofOk \in BOOLEAN :
         IF ~eofOk
           THEN /\ pc' = "failed" /\ error' = "encoder.send_eof"
                /\ UNCHANGED <<log, encPending, packets, current_pts>>
           ELSE \E failAt \in 0..encPending :
                  LET w == WritePackets(encPending, packets, current_pts, failAt)
                      written == Len(w.packets) - Len(packets)
                  IN  /\ packets' = w.packets
                      /\ current_pts' = w.current_pts
                      /\ encPending' = encPending - written
                      /\ log' = log \o <<"send_eof">> \o Repeat("write_packet", written)
                      /\ IF failAt = 0
                           THEN pc' = "trailer" /\ error' = error
                           ELSE pc' = "failed" /\ error' = "write_interleaved"
    /\ UNCHANGED <<width, height, stride, fps, frames, decPending, decSent, firstDims,
                   mismatch, actual_stream_time_base, pts_increment, outFrames, x>>

\* octx.write_trailer()?; Ok(())
WriteTrailer ==
    /\ pc = "trailer"
    /\ \E ok \in BOOLEAN :
         IF ok
           THEN pc' = "done" /\ error' = error /\ log' = log \o <<"write_trailer">>
           ELSE pc' = "failed" /\ error' = "write_trailer" /\ log' = log
    /\ UNCHANGED <<width, height, stride, fps, frames, decPending, decSent, firstDims,
                   mismatch, actual_stream_time_base, pts_increment, current_pts,
                   encPending, packets, outFrames, x>>

Init ==
    /\ pc = "decoding"
    /\ error = ""
    /\ width \in 1..MaxWidth
    /\ height \in 1..MaxHeight
    /\ \E pad \in 0..MaxStridePad : stride = 3 * width + pad
    /\ fps \in FrameRates
    /\ frames = <<>>
    /\ decPending = 0
    /\ decSent = 0
    /\ firstDims = <<0, 0>>
    /\ mismatch = FALSE
    /\ log = <<>>
    /\ actual_stream_time_base = <<0, 1>>
    /\ pts_increment = 0
    /\ current_pts = 0
    /\ encPending = 0
    /\ packets = <<>>
    /\ outFrames = <<>>
    /\ x = 0

Next ==
    \/ DecodePacket
    \/ FlushDecoder
    \/ SetupOutput
    \/ WriteHeader
    \/ EncodeFrame
    \/ FlushEncoder
    \/ WriteTrailer

Spec == Init /\ [][Next]_vars

\* ---- properties ----

T == Len(frames)

EvenT == IF T % 2 = 0 THEN T ELSE T + 1

Rows == 0..(height - 1)

Chans == 0..2

\* C1: every rgb frame built by the transpose loop carries x = 0, 1, 2, ... in
\* order, has height Y and width T (T even) or T + 1 (T odd), with a buffer of
\* exactly width * height * 3 bytes; a run that ends successfully has built
\* exactly X of them.
C1_OutputDimensions ==
    /\ \A i \in DOMAIN outFrames :
         /\ outFrames[i].pts = i - 1
         /\ outFrames[i].height = height
         /\ outFrames[i].width = EvenT
         /\ DOMAIN outFrames[i].data = 0..(EvenT * height * 3 - 1)
    /\ pc = "done" => (T >= 1 /\ Len(outFrames) = width)

C1_Witness ==
    pc = "done" /\ T = 3 /\ width = 2 /\ Len(outFrames) = 2

\* C2: for any row stride >= 3 * X, byte c of the pixel at column t, row y of
\* output frame x is byte y * stride + 3 * x + c of input frame t.
C2_PixelCorrectness ==
    \A i \in DOMAIN outFrames : \A y \in Rows : \A t \in 0..(T - 1) : \A c \in Chans :
        outFrames[i].data[(y * outFrames[i].width + t) * 3 + c]
            = frames[t + 1][y * stride + 3 * (i - 1) + c]

\* C3: when T is odd, in every output frame and row the pixel of the added
\* column T equals the pixel of column T - 1, which is the pixel at column x,
\* row y of input frame T - 1, and is not left zero; when T is even the frame
\* has no extra column.
C3_PaddingCorrectness ==
    \A i \in DOMAIN outFrames :
        LET f == outFrames[i]
        IN  /\ T % 2 = 1 =>
                 \A y \in Rows : \A c \in Chans :
                    /\ f.data[(y * f.width + T) * 3 + c] = f.data[(y * f.width + T - 1) * 3 + c]
                    /\ f.data[(y * f.width + T) * 3 + c] = frames[T][y * stride + 3 * (i - 1) + c]
                    /\ f.data[(y * f.width + T) * 3 + c] # 0
            /\ T % 2 = 0 => f.width = T

\* The padding step taken alone: the added column is a copy of column T - 1 of
\* the same output row, whatever that column holds.
PaddingDuplicatesLastColumn ==
    \A i \in DOMAIN outFrames :
        LET f == outFrames[i]
        IN  T % 2 = 1 =>
              \A y \in Rows : \A c \in Chans :
                 /\ f.data[(y * f.width + T) * 3 + c] = f.data[(y * f.width + T - 1) * 3 + c]
                 /\ f.data[(y * f.width + T) * 3 + c] # 0

\* C4: the n-th packet written (n = 0, 1, ...) has PTS = DTS = n * pts_increment,
\* and the written PTS sequence is strictly increasing.
C4_TimestampMonotonicity ==
    /\ \A n \in DOMAIN packets :
         /\ packets[n].pts = (n - 1) * pts_increment
         /\ packets[n].dts = packets[n].pts
    /\ \A n \in DOMAIN packets : n > 1 => packets[n].pts > packets[n - 1].pts

\* C5: the presentation time of the n-th written packet is exactly n frame
\* durations: pts_n * tb_num * num = n * den * tb_den.
C5_ExactConstantRate ==
    \A n \in DOMAIN packets :
        packets[n].pts * actual_stream_time_base[1] * fps[1]
            = (n - 1) * fps[2] * actual_stream_time_base[2]

\* C6: once Pass 1 is over with an empty frame store, the run has ended with an
\* error and no output-side call has been made: no output opened, no encoder,
\* no header, packet or trailer.
C6_EmptyStore ==
    (pc # "decoding" /\ T = 0) =>
        (pc = "failed" /\ error # "" /\ log = <<>> /\ packets = <<>> /\ outFrames = <<>>)

C6_Witness ==
    pc = "failed" /\ error = "No frames decoded" /\ T = 0 /\ decSent >= 1

\* C7: once a frame whose size differs from the first frame's has been
\* appended, the run never enters Pass 2 and builds no transposed frame.
C7_DimensionMismatch ==
    mismatch => (pc \in {"decoding", "failed"} /\ outFrames = <<>>)

\* C8: with a frame rate of numerator 0 the division computing pts_increment
\* is never attempted, the run does not end in an arithmetic fault, and no
\* packet is written.
C8_ZeroFrameRate ==
    fps[1] = 0 => ("divide" \notin Range(log) /\ pc # "panicked" /\ packets = <<>>)

\* The engine applied to the frames it produced: they are the new frame store,
\* tightly packed, of width NewWidth(T), height Y, X frames long.
SecondPass ==
    LET store2 == [i \in DOMAIN outFrames |-> outFrames[i].data]
        w2     == outFrames[1].width
    IN  [j \in 1..NewNumFrames(w2) |->
            TransposedFrame(store2, w2, height, Len(store2), j - 1)]

\* C9: when T is odd, transposing the output of a finished run yields T + 1
\* frames of width X padded to even and height Y, never the original T frames.
C9_NonInvolution ==
    (pc = "done" /\ T % 2 = 1) =>
        /\ Len(SecondPass) = T + 1
        /\ Len(SecondPass) # T
        /\ \A j \in DOMAIN SecondPass :
             /\ SecondPass[j].width = (IF width % 2 = 0 THEN width ELSE width + 1)
             /\ SecondPass[j].height = height

C9_Witness ==
    pc = "done" /\ T = 3 /\ width = 1 /\ Len(SecondPass) = 4

\* C10: pts_increment is computed exactly once in every run that gets past
\* the header step, after write_header and before any packet is written, as floor(tb_den * den / num) of the time base read
\* back after the header; every packet write lies after the header and before
\* the trailer; the trailer is written after send_eof with the encoder drained.
C10_TimebaseOrdering ==
    /\ Count(log, "pts_increment") <= 1
    /\ Count(log, "write_header") <= 1
    /\ pc \in {"encoding", "trailer", "done"} => Count(log, "pts_increment") = 1
    /\ \A p \in DOMAIN log : log[p] = "pts_increment" =>
         /\ \E h \in 1..(p - 1) : log[h] = "write_header"
         /\ pts_increment = (actual_stream_time_base[2] * fps[2]) \div fps[1]
    /\ \A i \in DOMAIN log : log[i] = "write_packet" =>
         /\ \E h \in 1..(i - 1) : log[h] = "write_header"
         /\ \E p \in 1..(i - 1) : log[p] = "pts_increment"
         /\ \A t \in 1..(i - 1) : log[t] # "write_trailer"
    /\ \A i \in DOMAIN log : log[i] = "write_trailer" =>
         /\ \E e \in 1..(i - 1) : log[e] = "send_eof"
         /\ encPending = 0
    /\ Len(packets) = Count(log, "write_packet")

C10_Witness ==
    /\ pc = "done"
    /\ Len(packets) >= 2
    /\ actual_stream_time_base # <<fps[2], fps[1]>>
    /\ pts_increment # fps[2]

====
